---- MODULE Spec2Model ----
(***************************************************************************)
(* 3A2BOT: the CI log analysis and status reconciliation worker.           *)
(*                                                                         *)
(* The model follows src/bot.py (the worker loop), src/ci_checker.py (log  *)
(* analysis and outcome classification), src/github_ops.py (comment and    *)
(* label writes) and src/issue_utils.py (item selection, module link).     *)
(*                                                                         *)
(* Text is modelled as a sequence of characters, each character a string.  *)
(* Characters that are not printable ASCII carry their name: "LF", "ESC",  *)
(* "TAB", "CR", "U+FFFD" (replacement character), "U+1F6A8", "U+2699",     *)
(* "U+FE0F", "U+1F559" (the emoji of the comment templates), "BQ" (backquote). *)
(***************************************************************************)
EXTENDS Integers, Sequences, FiniteSets, TLC

----------------------------------------------------------------------------
(* Characters and text primitives (Python str / re semantics)              *)

Digits == {"0","1","2","3","4","5","6","7","8","9"}

UpperLetters ==
  <<"A","B","C","D","E","F","G","H","I","J","K","L","M","N","O","P","Q","R","S","T","U","V","W",
    "X","Y","Z">>

LowerLetters ==
  <<"a","b","c","d","e","f","g","h","i","j","k","l","m","n","o","p","q","r","s","t","u","v","w",
    "x","y","z">>

\* the characters str.strip() removes and \s matches
Whitespace == {" ", "TAB", "LF", "CR"}

\* [a-z0-9]
LowerAlnum == {LowerLetters[k] : k \in 1..Len(LowerLetters)} \cup Digits

\* str.lower() on one character
LowerChar(c) ==
  IF \E k \in 1..Len(UpperLetters) : UpperLetters[k] = c
  THEN LowerLetters[CHOOSE k \in 1..Len(UpperLetters) : UpperLetters[k] = c]
  ELSE c

\* str.lower()
Lower(s) == [i \in 1..Len(s) |-> LowerChar(s[i])]

\* s[i:] with i counted from 1
Drop(s, i) == SubSeq(s, i, Len(s))

\* s[:n]
Take(s, n) == IF Len(s) <= n THEN s ELSE SubSeq(s, 1, n)

\* p occurs in s starting at position i
OccursAt(p, s, i) == i + Len(p) - 1 <= Len(s) /\ SubSeq(s, i, i + Len(p) - 1) = p

\* p in s
Contains(s, p) == \E i \in 1..(Len(s) - Len(p) + 1) : OccursAt(p, s, i)

\* s.startswith(p), s.endswith(p)
StartsWith(s, p) == OccursAt(p, s, 1)

EndsWith(s, p) == Len(p) <= Len(s) /\ SubSeq(s, Len(s) - Len(p) + 1, Len(s)) = p

\* first position >= i holding a character outside set cs (Len(s)+1 when none)
RECURSIVE SkipWhile(_, _, _)
SkipWhile(s, i, cs) ==
  IF i <= Len(s) /\ s[i] \in cs THEN SkipWhile(s, i + 1, cs) ELSE i

\* last position <= i holding a character outside set cs (0 when none)
RECURSIVE SkipBack(_, _, _)
SkipBack(s, i, cs) ==
  IF i >= 1 /\ s[i] \in cs THEN SkipBack(s, i - 1, cs) ELSE i

\* str.strip()
Strip(s) == SubSeq(s, SkipWhile(s, 1, Whitespace), SkipBack(s, Len(s), Whitespace))

\* str.replace(old, new): every non-overlapping occurrence, left to right
RECURSIVE Replace(_, _, _)
Replace(s, old, new) ==
  IF s = <<>> THEN <<>>
  ELSE IF OccursAt(old, s, 1) THEN new \o Replace(Drop(s, Len(old) + 1), old, new)
  ELSE <<s[1]>> \o Replace(Drop(s, 2), old, new)

\* sep.join(parts)
RECURSIVE Join(_, _)
Join(parts, sep) ==
  IF parts = <<>> THEN <<>>
  ELSE IF Len(parts) = 1 THEN parts[1]
  ELSE parts[1] \o sep \o Join(Tail(parts), sep)

\* s.split("/")[0]
FirstPathPart(s) ==
  IF \E i \in 1..Len(s) : s[i] = "/"
  THEN SubSeq(s, 1, (CHOOSE i \in 1..Len(s) : s[i] = "/" /\ \A j \in 1..(i - 1) : s[j] # "/") - 1)
  ELSE s

\* re.sub(r"[^a-z0-9]", "_", s)
Underscored(s) == [i \in 1..Len(s) |-> IF s[i] \in LowerAlnum THEN s[i] ELSE "_"]

\* re.sub(r"^\d+_", "", s)
StripOrdinal(s) ==
  LET e == SkipWhile(s, 1, Digits)
  IN  IF e > 1 /\ e <= Len(s) /\ s[e] = "_" THEN Drop(s, e + 1) ELSE s

----------------------------------------------------------------------------
(* Literals of the source                                                   *)

DotTxt ==
  <<".","t","x","t">>

\* the substring that identifies a status comment
BotMarker ==
  <<"C","I"," ","T","e","s","t"," ","F","a","i","l","u","r","e","s"," ","D","e","t","e","c","t",
    "e","d">>

\* the substring that identifies an archived comment
DetailsTag ==
  <<"<","d","e","t","a","i","l","s",">">>

ArchiveHead ==
  <<"<","d","e","t","a","i","l","s",">","LF","<","s","u","m","m","a","r","y",">","U+1F559"," ",
    "O","u","t","d","a","t","e","d"," ","C","I"," ","r","e","s","u","l","t"," ","(","a","u","t",
    "o","-","a","r","c","h","i","v","e","d"," ","b","y"," ","b","o","t",")","<","/","s","u","m",
    "m","a","r","y",">","LF","LF">>

ArchiveTail ==
  <<"LF","<","/","d","e","t","a","i","l","s",">">>

CommentTitle ==
  <<"U+1F6A8"," ","*","*","C","I"," ","T","e","s","t"," ","F","a","i","l","u","r","e","s"," ",
    "D","e","t","e","c","t","e","d","*","*","LF","LF">>

JobHeading ==
  <<"#","#","#"," ","U+2699","U+FE0F"," ">>

FenceOpen ==
  <<"BQ","BQ","BQ","b","a","s","h","LF">>

FenceClose ==
  <<"LF","BQ","BQ","BQ","LF","LF">>

SnippetSeparator ==
  <<"LF","LF","-","-","-","LF","LF">>

LinkHead ==
  <<"F","i","l","e","s"," ","i","d","e","n","t","i","f","i","e","d"," ","i","n"," ","t","h","e",
    " ","d","e","s","c","r","i","p","t","i","o","n",":","LF","LF","-"," ","[","*","*">>

ModulesDir ==
  <<"p","l","u","g","i","n","s","/","m","o","d","u","l","e","s","/">>

DotPy ==
  <<".","p","y">>

BlobUrl ==
  <<"h","t","t","p","s",":","/","/","g","i","t","h","u","b",".","c","o","m","/","3","A","2","D",
    "E","V","/","a","2","d","e","v",".","g","e","n","e","r","a","l","/","b","l","o","b","/","m",
    "a","i","n","/">>

FailureMarkers ==
  <<<<"F","A","I","L","E","D">>,
    <<"F","A","T","A","L">>,
    <<"f","a","t","a","l">>,
    <<"E","R","R","O","R">>,
    <<"e","r","r","o","r">>,
    <<"W","A","R","N","I","N","G">>,
    <<"w","a","r","n","i","n","g">>>>

StatusLabels == {"success", "stale_ci", "needs_revision"}

\* combined_snippet[:1000]
SnippetBudget == 1000

----------------------------------------------------------------------------
(* src/ci_checker.py: the pure part                                        *)

\* n characters of class cs start at position i
DigitsAt(s, i, n) == i + n - 1 <= Len(s) /\ \A k \in i..(i + n - 1) : s[k] \in Digits

CharAt(s, i, c) == i <= Len(s) /\ s[i] = c

\* length of the match of ^\s*\d{4}-\d{2}-\d{2}T\d{2}:\d{2}:\d{2}\.\d+Z\s* (0: no match)
TimestampEnd(s) ==
  LET a == SkipWhile(s, 1, Whitespace)
      f == SkipWhile(s, a + 20, Digits)
  IN  IF /\ DigitsAt(s, a, 4) /\ CharAt(s, a + 4, "-")
         /\ DigitsAt(s, a + 5, 2) /\ CharAt(s, a + 7, "-")
         /\ DigitsAt(s, a + 8, 2) /\ CharAt(s, a + 10, "T")
         /\ DigitsAt(s, a + 11, 2) /\ CharAt(s, a + 13, ":")
         /\ DigitsAt(s, a + 14, 2) /\ CharAt(s, a + 16, ":")
         /\ DigitsAt(s, a + 17, 2) /\ CharAt(s, a + 19, ".")
         /\ f > a + 20 /\ CharAt(s, f, "Z")
      THEN SkipWhile(s, f + 1, Whitespace) - 1
      ELSE 0

\* end of the match of (?:\x1b|U+FFFD)\[[0-9;]*[mK] starting at position i (0: no match)
AnsiEnd(s, i) ==
  LET e == SkipWhile(s, i + 2, Digits \cup {";"})
  IN  IF /\ i <= Len(s) /\ s[i] \in {"ESC", "U+FFFD"}
         /\ CharAt(s, i + 1, "[")
         /\ e <= Len(s) /\ s[e] \in {"m", "K"}
      THEN e ELSE 0

\* re.sub of the escape-sequence pattern by ""
RECURSIVE RemoveAnsi(_)
RemoveAnsi(s) ==
  IF s = <<>> THEN <<>>
  ELSE IF AnsiEnd(s, 1) > 0 THEN RemoveAnsi(Drop(s, AnsiEnd(s, 1) + 1))
  ELSE <<s[1]>> \o RemoveAnsi(Drop(s, 2))

\* clean_line without the removal of the escape sequences
clean_line_KeepsAnsi(line) == Strip(Drop(line, TimestampEnd(line) + 1))

clean_line(line) == Strip(RemoveAnsi(Drop(line, TimestampEnd(line) + 1)))

\* re.match of ^(FAILED|FATAL|fatal|ERROR|error|WARNING|warning) on the cleaned line
IsErrorLine(cleaned) == \E k \in 1..Len(FailureMarkers) : StartsWith(cleaned, FailureMarkers[k])

RECURSIVE extract_error_snippets(_)
extract_error_snippets(lines) ==
  IF lines = <<>> THEN <<>>
  ELSE LET cleaned == clean_line(lines[1])
       IN  (IF IsErrorLine(cleaned) THEN <<cleaned>> ELSE <<>>)
             \o extract_error_snippets(Tail(lines))

\* A dict in insertion order: a sequence of <<key, value>> with distinct keys.
DictHas(dict, k) == \E i \in 1..Len(dict) : dict[i][1] = k

DictPut(dict, k, v) ==
  IF DictHas(dict, k)
  THEN [i \in 1..Len(dict) |-> IF dict[i][1] = k THEN <<k, v>> ELSE dict[i]]
  ELSE Append(dict, <<k, v>>)

\* match_job_for_log with the test `normalized_folder in key` only
match_job_for_log_OneWay(normalized_folder, job_lookup) ==
  LET hits == {i \in 1..Len(job_lookup) : Contains(job_lookup[i][1], normalized_folder)}
  IN  IF hits = {} THEN <<>>
      ELSE job_lookup[CHOOSE i \in hits : \A j \in hits : i <= j][2]

\* the first entry of job_lookup, in insertion order, whose key contains the folder
\* or is contained in it; <<>> stands for None
match_job_for_log(normalized_folder, job_lookup) ==
  LET hits == {i \in 1..Len(job_lookup) :
                 \/ Contains(job_lookup[i][1], normalized_folder)
                 \/ Contains(normalized_folder, job_lookup[i][1])}
  IN  IF hits = {} THEN <<>>
      ELSE job_lookup[CHOOSE i \in hits : \A j \in hits : i <= j][2]

\* key = re.sub(r"[^a-z0-9]", "_", name.lower())
JobKey(name) == Underscored(Lower(name))

\* job_lookup after the loop over the job list: failed jobs only
RECURSIVE JobLookup(_, _)
JobLookup(jobs, acc) ==
  IF jobs = <<>> THEN acc
  ELSE JobLookup(Tail(jobs),
                 IF jobs[1].conclusion = "failure"
                 THEN DictPut(acc, JobKey(jobs[1].name), jobs[1].name)
                 ELSE acc)

\* failed_jobs taken as every job that did not conclude "success"
FailedJobs_NotSuccess(jobs) ==
  {jobs[i].name : i \in {k \in 1..Len(jobs) : jobs[k].conclusion # "success"}}

\* failed_jobs
FailedJobs(jobs) == {jobs[i].name : i \in {k \in 1..Len(jobs) : jobs[k].conclusion = "failure"}}

\* normalized_folder of one archive member
NormalizedFolder(file_name) ==
  Underscored(Lower(Strip(Replace(StripOrdinal(FirstPathPart(file_name)), DotTxt, <<>>))))

\* the loop without the test `matched_job in job_logs`: a later member overwrites
RECURSIVE JobLogs_LastWins(_, _, _)
JobLogs_LastWins(files, job_lookup, acc) ==
  IF files = <<>> THEN acc
  ELSE LET file == files[1]
           matched_job == match_job_for_log(NormalizedFolder(file.name), job_lookup)
           snippets == extract_error_snippets(file.lines)
       IN  JobLogs_LastWins(Tail(files), job_lookup,
             IF \/ ~EndsWith(file.name, DotTxt)
                \/ matched_job = <<>>
                \/ snippets = <<>>
             THEN acc
             ELSE DictPut(acc, matched_job, Join(snippets, SnippetSeparator)))

\* job_logs after the loop over zip_file.namelist()
RECURSIVE JobLogs(_, _, _)
JobLogs(files, job_lookup, acc) ==
  IF files = <<>> THEN acc
  ELSE LET file == files[1]
           matched_job == match_job_for_log(NormalizedFolder(file.name), job_lookup)
           snippets == extract_error_snippets(file.lines)
       IN  JobLogs(Tail(files), job_lookup,
             IF \/ ~EndsWith(file.name, DotTxt)
                \/ matched_job = <<>>
                \/ DictHas(acc, matched_job)
                \/ snippets = <<>>
             THEN acc
             ELSE Append(acc, <<matched_job, Join(snippets, SnippetSeparator)>>))

\* the comment body built from job_logs
RECURSIVE CommentBody(_)
CommentBody(job_logs) ==
  IF job_logs = <<>> THEN <<>>
  ELSE JobHeading \o job_logs[1][1] \o <<"LF">>
         \o FenceOpen \o Take(job_logs[1][2], SnippetBudget) \o FenceClose
         \o CommentBody(Tail(job_logs))

Report(run) == JobLogs(run.files, JobLookup(run.jobs, <<>>), <<>>)

comment_body(run) == CommentTitle \o CommentBody(Report(run))

----------------------------------------------------------------------------
(* Inputs: job lists and log archives the worker can be handed              *)

UnitsDevel ==
  <<"U","n","i","t","s"," ","(","d","e","v","e","l",")">>

Sanity ==
  <<"S","a","n","i","t","y">>

\* archive member names
UnitsFile ==
  <<"u","n","i","t","s"," ","(","d","e","v","e","l",")",".","t","x","t">>

UnitsOrdinalFile ==
  <<"0","_","u","n","i","t","s","_","d","e","v","e","l","_",".","t","x","t">>

SanityFile ==
  <<"1","_","S","a","n","i","t","y","/","2","_","R","u","n",".","t","x","t">>

SanitySecondFile ==
  <<"3","_","s","a","n","i","t","y",".","t","x","t">>

SanityThirdFile ==
  <<"1","_","S","a","n","i","t","y","/","3","_","P","o","s","t",".","t","x","t">>

DevelFile ==
  <<"d","e","v","e","l",".","t","x","t">>

BothFile ==
  <<"s","a","n","i","t","y"," ","u","n","i","t","s"," ","(","d","e","v","e","l",")",".","t","x",
    "t">>

LintFile ==
  <<"l","i","n","t",".","t","x","t">>

NotALog ==
  <<"u","n","i","t","s"," ","(","d","e","v","e","l",")",".","j","s","o","n">>

\* log lines
NormalLine ==
  <<"2","0","2","5","-","0","4","-","0","1","T","0","4",":","0","7",":","5","8",".","0","0","0",
    "0","0","0","0","Z"," ","N","o","r","m","a","l"," ","l","o","g"," ","l","i","n","e">>

FailedLine ==
  <<"2","0","2","5","-","0","4","-","0","1","T","0","4",":","0","7",":","5","8",".","1","0","0",
    "0","0","0","0","Z"," ","ESC","[","3","1","m","F","A","I","L","E","D",":"," ","T","e","s",
    "t"," ","f","a","i","l","e","d"," ","d","u","e"," ","t","o"," ","a","s","s","e","r","t","i",
    "o","n","ESC","[","0","m">>

ErrorLine ==
  <<" "," ","E","R","R","O","R",":"," ","b","o","o","m">>

WarningLine ==
  <<"w","a","r","n","i","n","g",":"," ","d","e","p","r","e","c","a","t","e","d">>

MidErrorLine ==
  <<"T","a","s","k"," ","E","R","R","O","R"," ","i","n"," ","s","t","e","p">>

\* a marker line that also holds a phrase of coverage output
NoiseLine ==
  <<"F","A","I","L","E","D",":"," ","s","o","m","e","t","h","i","n","g"," ","c","o","v","e","r",
    "a","g","e",":"," ","4","2","%">>

\* a marker line of 57 characters
LongLine ==
  <<"F","A","T","A","L",":"," ">> \o [i \in 1..50 |-> "x"]

\* marker lines that together exceed the snippet budget, between two short ones
LongLog ==
  <<ErrorLine>> \o [i \in 1..16 |-> LongLine] \o <<WarningLine>>

\* a component name parse_component_name can return
Ping ==
  <<"p","i","n","g">>

\* jr.json()["jobs"]: name and conclusion of each job
JobLists ==
  << <<[name |-> UnitsDevel, conclusion |-> "success"], [name |-> Sanity, conclusion |-> "skipped"]>>,
     <<[name |-> UnitsDevel, conclusion |-> "failure"], [name |-> Sanity, conclusion |-> "success"]>>,
     <<[name |-> Sanity, conclusion |-> "failure"], [name |-> UnitsDevel, conclusion |-> "failure"]>>,
     <<[name |-> UnitsDevel, conclusion |-> "failure"], [name |-> Sanity, conclusion |-> "failure"]>> >>

\* the members of the log archive in namelist() order, each with its decoded lines
Archives ==
  << <<[name |-> UnitsFile, lines |-> <<NormalLine, FailedLine, NormalLine>>]>>,
     <<[name |-> UnitsFile, lines |-> <<ErrorLine, WarningLine>>],
       [name |-> SanityFile, lines |-> <<FailedLine>>]>>,
     <<[name |-> UnitsOrdinalFile, lines |-> <<FailedLine>>],
       [name |-> NotALog, lines |-> <<ErrorLine>>]>>,
     <<[name |-> UnitsFile, lines |-> <<NormalLine, MidErrorLine>>],
       [name |-> SanitySecondFile, lines |-> <<>>]>>,
     <<[name |-> UnitsFile, lines |-> LongLog]>>,
     <<[name |-> LintFile, lines |-> <<ErrorLine>>],
       [name |-> DevelFile, lines |-> <<FailedLine>>],
       [name |-> BothFile, lines |-> <<WarningLine>>]>>,
     <<[name |-> SanitySecondFile, lines |-> <<NormalLine>>],
       [name |-> UnitsFile, lines |-> <<ErrorLine>>],
       [name |-> SanityFile, lines |-> <<FailedLine>>],
       [name |-> SanityThirdFile, lines |-> <<ErrorLine, WarningLine>>]>>,
     <<[name |-> UnitsFile, lines |-> <<NormalLine, NoiseLine>>]>> >>

\* the completed runs in use: a job list and an archive, by position
CompletedRuns == {<<1, 1>>, <<1, 3>>, <<2, 1>>, <<2, 2>>, <<2, 3>>, <<2, 4>>, <<3, 2>>}

\* the completed runs in use for the claims about log analysis
LogRuns == {<<2, 1>>, <<2, 3>>, <<2, 5>>, <<2, 8>>, <<3, 2>>, <<3, 6>>, <<4, 6>>, <<3, 7>>}

\* what the fetches of one pull request return when they succeed
CiStates ==
  {[status |-> "none", jobs |-> 1, files |-> 1], [status |-> "in_progress", jobs |-> 1, files |-> 1]}
    \cup {[status |-> "completed", jobs |-> r[1], files |-> r[2]] : r \in CompletedRuns}

Run(c) == [jobs |-> JobLists[c.jobs], files |-> Archives[c.files]]

----------------------------------------------------------------------------
(* src/github_ops.py and src/issue_utils.py: the pure part                 *)

\* bot_comments: the positions of the comments whose body contains the marker
BotComments(cs) == {i \in 1..Len(cs) : Contains(cs[i], BotMarker)}

\* bot_comments[-1]
LatestBot(cs) == CHOOSE i \in BotComments(cs) : \A j \in BotComments(cs) : j <= i

\* the edit without the test for the details tag
ArchiveEdits_Always(cs) == BotComments(cs) # {}

\* archive_old_comment calls latest.edit
ArchiveEdits(cs) == BotComments(cs) # {} /\ ~Contains(cs[LatestBot(cs)], DetailsTag)

\* archive_old_comment without latest.edit
archive_old_comment_NoEdit(cs) == cs

\* the comment list after archive_old_comment
archive_old_comment(cs) ==
  IF ArchiveEdits(cs)
  THEN [cs EXCEPT ![LatestBot(cs)] = ArchiveHead \o @ \o ArchiveTail]
  ELSE cs

\* a different body is posted without archiving the latest bot comment
PostBranch_NoArchive(cs, body) ==
  IF BotComments(cs) = {} \/ Strip(body) # Strip(cs[LatestBot(cs)]) THEN "first"
  ELSE "skip"

\* the branch post_or_update_comment takes
PostBranch(cs, body) ==
  IF BotComments(cs) = {} THEN "first"
  ELSE IF Strip(body) # Strip(cs[LatestBot(cs)]) THEN "update"
  ELSE "skip"

\* the comment list after post_or_update_comment
post_or_update_comment(cs, body) ==
  IF PostBranch(cs, body) = "first" THEN Append(cs, body)
  ELSE IF PostBranch(cs, body) = "update" THEN Append(archive_old_comment(cs), body)
  ELSE cs

\* add_label calls item.add_to_labels: the label is not in item.labels
AddsLabel(objLabels, label) == label \notin objLabels

\* remove_label calls item.remove_from_labels: the label is in item.labels
RemovesLabel(objLabels, label) == label \in objLabels

\* the body comment_with_link posts for plugins/modules/<component>.py
LinkBody(component) ==
  LET path == ModulesDir \o component \o DotPy
  IN  LinkHead \o path \o <<"*", "*", "]", "(">> \o BlobUrl \o path \o <<")">>

\* a set of item numbers in the order of get_issues(sort="created", direction="desc")
RECURSIVE Descending(_)
Descending(S) ==
  IF S = {} THEN <<>>
  ELSE LET m == CHOOSE x \in S : \A y \in S : y <= x
       IN  <<m>> \o Descending(S \ {m})

\* the all-passed writes without remove_label(pr, "needs_revision")
AllPassedOps_KeepsNeedsRevision ==
  << [op |-> "archive", label |-> ""],
     [op |-> "remove", label |-> "stale_ci"],
     [op |-> "add", label |-> "success"] >>

\* the remote writes of check_ci_errors_and_comment when no job failed, in call order
AllPassedOps ==
  << [op |-> "archive", label |-> ""],
     [op |-> "remove", label |-> "stale_ci"],
     [op |-> "remove", label |-> "needs_revision"],
     [op |-> "add", label |-> "success"] >>

\* the failure writes without remove_label(pr, "success")
FailedOps_KeepsSuccess ==
  << [op |-> "post", label |-> ""],
     [op |-> "remove", label |-> "stale_ci"],
     [op |-> "remove", label |-> "needs_revision"],
     [op |-> "add", label |-> "stale_ci"],
     [op |-> "add", label |-> "needs_revision"] >>

\* the remote writes of check_ci_errors_and_comment when it built a comment body
FailedOps ==
  << [op |-> "post", label |-> ""],
     [op |-> "remove", label |-> "success"],
     [op |-> "remove", label |-> "stale_ci"],
     [op |-> "remove", label |-> "needs_revision"],
     [op |-> "add", label |-> "stale_ci"],
     [op |-> "add", label |-> "needs_revision"] >>

----------------------------------------------------------------------------
(* Bounds                                                                  *)

\* passes of the worker loop in one behaviour
MaxPasses == 2

\* process restarts in one behaviour
MaxCrashes == 1

\* new workflow runs the repository sees in one behaviour
MaxNewRuns == 1

----------------------------------------------------------------------------
(* State                                                                   *)

VARIABLES
  open,         \* the numbers of the open items of the repository
  isPR,         \* item.pull_request, per item
  component,    \* the component of the item body whose module file exists (<<>>: none)
  ci,           \* the workflow run of the head commit, per item
  labels,       \* the status labels of the item on the remote
  comments,     \* the issue comments of the item on the remote, oldest first
  saved,        \* the content of PROCESSED_FILE
  processed,    \* the global set of bot.py
  pc,           \* where the worker is
  queue,        \* the items the for loop of bot_loop still has to visit
  item,         \* the item being processed (0: none)
  todo,         \* the remote writes check_ci_errors_and_comment still has to make
  new_body,     \* comment_body
  prLabels,     \* pr.labels, the attribute of the object repo.get_pull returned
  labelsCached, \* pr.labels is the value read by get_pull; the client library does not
                \* refresh it after add_to_labels / remove_from_labels (FALSE: it does)
  passes, crashes, newRuns,
  outcome,      \* the path the current call of check_ci_errors_and_comment took
  before,       \* labels and comments of the item when the current call began
  calls,        \* remote writes the current call made so far, per kind
  posted,       \* the bodies the current call passed to post_comment, in call order
  prev,         \* per item: outcome and run of its previous completed call
  selected,     \* the items get_unprocessed_items returned in the current pass
  aborted,      \* the items whose call the previous pass ended on a non-success fetch
  abortedNow,   \* the same for the current pass
  orig          \* what a restart interrupted: item, its run, its labels and comments before

vars ==
  <<open, isPR, component, ci, labels, comments, saved, processed, pc, queue, item, todo,
    new_body, prLabels, labelsCached, passes, crashes, newRuns, outcome, before, calls, posted,
    prev, selected, aborted, abortedNow, orig>>

remote == <<open, isPR, component, labels, comments>>

NoCalls == [post |-> 0, edit |-> 0, add |-> 0, remove |-> 0]

NoBefore == [labels |-> {}, comments |-> <<>>]

NoPrev == [outcome |-> "none", ci |-> [status |-> "none", jobs |-> 1, files |-> 1]]

NoOrig == [item |-> 0, ci |-> [status |-> "none", jobs |-> 1, files |-> 1],
           labels |-> {}, comments |-> <<>>]

\* the state of a freshly started process whose PROCESSED_FILE holds `saved`
Boot ==
  /\ processed = saved
  /\ pc = "start"
  /\ queue = <<>>
  /\ item = 0
  /\ todo = <<>>
  /\ new_body = <<>>
  /\ prLabels = {}
  /\ outcome = "none"
  /\ before = NoBefore
  /\ calls = NoCalls
  /\ posted = <<>>

\* one pull request whose body names a component with a module file
Init ==
  /\ open = {1}
  /\ isPR = [i \in open |-> TRUE]
  /\ component = [i \in open |-> Ping]
  /\ ci \in [open -> CiStates]
  /\ labels \in [open -> SUBSET StatusLabels]
  /\ comments = [i \in open |-> <<>>]
  /\ saved = {}
  /\ labelsCached \in BOOLEAN
  /\ passes = 0 /\ crashes = 0 /\ newRuns = 0
  /\ prev = [i \in open |-> NoPrev]
  /\ selected = {} /\ aborted = {} /\ abortedNow = {}
  /\ orig = NoOrig
  /\ Boot

\* two items of either kind, for the claims about the worker loop
InitLoop ==
  /\ open = {1, 2}
  /\ isPR \in [open -> BOOLEAN]
  /\ component \in [open -> {<<>>, Ping}]
  /\ ci \in [open -> {c \in CiStates : c.files = 1 /\ c.jobs \in {1, 2}}]
  /\ \A i \in open : ~isPR[i] => ci[i].status = "none"
  /\ labels \in [open -> {{}, {"stale_ci", "needs_revision"}}]
  /\ comments = [i \in open |-> <<>>]
  /\ saved = {}
  /\ labelsCached \in BOOLEAN
  /\ passes = 0 /\ crashes = 0 /\ newRuns = 0
  /\ prev = [i \in open |-> NoPrev]
  /\ selected = {} /\ aborted = {} /\ abortedNow = {}
  /\ orig = NoOrig
  /\ Boot

\* one pull request without labels, on the runs of LogRuns
InitLogs ==
  /\ open = {1}
  /\ isPR = [i \in open |-> TRUE]
  /\ component = [i \in open |-> Ping]
  /\ ci \in [open -> {[status |-> "completed", jobs |-> r[1], files |-> r[2]] : r \in LogRuns}]
  /\ labels = [i \in open |-> {}]
  /\ comments = [i \in open |-> <<>>]
  /\ saved = {}
  /\ labelsCached \in BOOLEAN
  /\ passes = 0 /\ crashes = 0 /\ newRuns = 0
  /\ prev = [i \in open |-> NoPrev]
  /\ selected = {} /\ aborted = {} /\ abortedNow = {}
  /\ orig = NoOrig
  /\ Boot

\* the remote state earlier passes on one pull request leave behind: after a pass
\* that posted the report of a failed run, and after a following pass on a run
\* without failed job; each pass has also posted the module link
Histories ==
  LET first == <<comment_body(Run([status |-> "completed", jobs |-> 2, files |-> 1])),
                 LinkBody(Ping)>>
  IN  {[labels |-> {"stale_ci", "needs_revision"}, comments |-> first],
       [labels |-> {"success"}, comments |-> Append(archive_old_comment(first), LinkBody(Ping))]}

\* a worker started on a pull request that earlier passes have already handled
InitHistory ==
  /\ open = {1}
  /\ isPR = [i \in open |-> TRUE]
  /\ component = [i \in open |-> Ping]
  /\ ci \in [open -> {[status |-> "completed", jobs |-> r[1], files |-> r[2]] :
                        r \in {<<1, 1>>, <<2, 1>>, <<3, 2>>}}]
  /\ \E h \in Histories :
       /\ labels = [i \in open |-> h.labels]
       /\ comments = [i \in open |-> h.comments]
  /\ saved = {1}
  /\ labelsCached \in BOOLEAN
  /\ passes = 0 /\ crashes = 0 /\ newRuns = 0
  /\ prev = [i \in open |-> NoPrev]
  /\ selected = {} /\ aborted = {} /\ abortedNow = {}
  /\ orig = NoOrig
  /\ Boot

----------------------------------------------------------------------------
(* src/issue_utils.py, src/bot.py: the worker loop                         *)

\* get_unprocessed_items(processed)
get_unprocessed_items(proc) ==
  {i \in open : i \notin proc \/ (\E l \in labels[i] : l \in StatusLabels)}

\* the worker enters the for loop: get_unprocessed_items is evaluated once per pass
StartPass ==
  /\ pc \in {"start", "sleep"}
  /\ passes < MaxPasses
  /\ passes' = passes + 1
  /\ queue' = Descending(get_unprocessed_items(processed))
  /\ selected' = get_unprocessed_items(processed)
  /\ aborted' = abortedNow
  /\ abortedNow' = {}
  /\ pc' = "loop"
  /\ UNCHANGED <<remote, ci, saved, processed, item, todo, new_body, prLabels, labelsCached,
                 crashes, newRuns, outcome, before, calls, posted, prev, orig>>

\* the next item of the for loop; for a pull request, pr = repo.get_pull(item.number)
TakeItem ==
  /\ pc = "loop"
  /\ queue # <<>>
  /\ item' = Head(queue)
  /\ queue' = Tail(queue)
  /\ pc' = IF isPR[Head(queue)] THEN "check" ELSE "link"
  /\ prLabels' = IF isPR[Head(queue)] THEN labels[Head(queue)] ELSE {}
  /\ todo' = <<>>
  /\ new_body' = <<>>
  /\ outcome' = "none"
  /\ before' = [labels |-> labels[Head(queue)], comments |-> comments[Head(queue)]]
  /\ calls' = NoCalls
  /\ posted' = <<>>
  /\ UNCHANGED <<remote, ci, saved, processed, labelsCached, passes, crashes, newRuns, prev,
                 selected, aborted, abortedNow, orig>>

\* what every exit of the fetch-and-classify part leaves alone
CheckFrame ==
  UNCHANGED <<remote, ci, saved, processed, queue, item, prLabels, labelsCached, passes,
              crashes, newRuns, before, calls, posted, prev, selected, aborted, abortedNow,
              orig>>

\* check_ci_errors_and_comment returns without a remote write
ReturnEarly(how) ==
  /\ outcome' = how
  /\ todo' = <<>>
  /\ new_body' = <<>>
  /\ pc' = "link"
  /\ CheckFrame

\* the exit for a missing or unfinished run taken for the all-passed one
CheckNoRun_AsAllPassed ==
  /\ pc = "check"
  /\ ci[item].status # "completed"
  /\ outcome' = "NO_RUN"
  /\ todo' = AllPassedOps
  /\ new_body' = <<>>
  /\ pc' = "ops"
  /\ CheckFrame

\* runs.totalCount == 0, or latest_run.status != "completed"
CheckNoRun ==
  /\ pc = "check"
  /\ ci[item].status # "completed"
  /\ ReturnEarly("NO_RUN")

\* r.status_code != 200, or jr.status_code != 200
CheckFetchFailed ==
  /\ pc = "check"
  /\ ci[item].status = "completed"
  /\ \E fetch \in {"logs", "jobs"} : ReturnEarly("ABORTED")

\* a fetch raises (get_workflow_runs, requests.get) or zipfile.ZipFile rejects the
\* content: nothing in check_ci_errors_and_comment or bot_loop catches it, and the
\* thread of bot_loop ends
CheckRaises ==
  /\ pc = "check"
  /\ \E fetch \in {"runs", "logs", "jobs", "zip"} :
       /\ fetch \in {"logs", "jobs"} => ci[item].status = "completed"
       /\ fetch = "zip" => /\ ci[item].status = "completed"
                           /\ FailedJobs(Run(ci[item]).jobs) # {}
  /\ outcome' = "RAISED"
  /\ pc' = "dead"
  /\ UNCHANGED <<todo, new_body>>
  /\ CheckFrame

\* not failed_jobs
CheckAllPassed ==
  /\ pc = "check"
  /\ ci[item].status = "completed"
  /\ FailedJobs(Run(ci[item]).jobs) = {}
  /\ outcome' = "ALL_PASSED"
  /\ todo' = AllPassedOps
  /\ new_body' = <<>>
  /\ pc' = "ops"
  /\ CheckFrame

\* the empty job_logs exit taken for the all-passed one
CheckNoEvidence_AsAllPassed ==
  /\ pc = "check"
  /\ ci[item].status = "completed"
  /\ FailedJobs(Run(ci[item]).jobs) # {}
  /\ Report(Run(ci[item])) = <<>>
  /\ outcome' = "FAILED_NO_EVIDENCE"
  /\ todo' = AllPassedOps
  /\ new_body' = <<>>
  /\ pc' = "ops"
  /\ CheckFrame

\* not job_logs
CheckNoEvidence ==
  /\ pc = "check"
  /\ ci[item].status = "completed"
  /\ FailedJobs(Run(ci[item]).jobs) # {}
  /\ Report(Run(ci[item])) = <<>>
  /\ ReturnEarly("FAILED_NO_EVIDENCE")

\* job_logs is not empty: the comment body is built
CheckWithEvidence ==
  /\ pc = "check"
  /\ ci[item].status = "completed"
  /\ FailedJobs(Run(ci[item]).jobs) # {}
  /\ Report(Run(ci[item])) # <<>>
  /\ outcome' = "FAILED_WITH_EVIDENCE"
  /\ todo' = FailedOps
  /\ new_body' = comment_body(Run(ci[item]))
  /\ pc' = "ops"
  /\ CheckFrame

\* what a remote write leaves alone
OpFrame ==
  UNCHANGED <<open, isPR, component, ci, saved, processed, queue, item, new_body,
              labelsCached, passes, crashes, newRuns, outcome, before, prev, selected,
              aborted, abortedNow, orig>>

\* the remaining writes are `rest`; the call returns when none is left
Continue(rest) ==
  /\ todo' = rest
  /\ pc' = IF rest = <<>> THEN "link" ELSE "ops"

\* archive_comment(pr)
ArchiveComment ==
  /\ pc = "ops"
  /\ Head(todo).op = "archive"
  /\ comments' = [comments EXCEPT ![item] = archive_old_comment(@)]
  /\ calls' = [calls EXCEPT !.edit = @ + (IF ArchiveEdits(comments[item]) THEN 1 ELSE 0)]
  /\ Continue(Tail(todo))
  /\ UNCHANGED <<labels, prLabels, posted>>
  /\ OpFrame

\* post_comment(pr, comment_body) up to its first remote write: the first comment is
\* created, or the latest bot comment is archived and the new one is still to create,
\* or nothing is written
PostComment ==
  /\ pc = "ops"
  /\ Head(todo).op = "post"
  /\ LET branch == PostBranch(comments[item], new_body)
     IN  /\ comments' = [comments EXCEPT ![item] =
                           IF branch = "first" THEN Append(@, new_body)
                           ELSE IF branch = "update" THEN archive_old_comment(@)
                           ELSE @]
         /\ calls' = [calls EXCEPT
                        !.post = @ + (IF branch = "first" THEN 1 ELSE 0),
                        !.edit = @ + (IF branch = "update" /\ ArchiveEdits(comments[item])
                                      THEN 1 ELSE 0)]
         /\ Continue(IF branch = "update"
                     THEN <<[op |-> "create", label |-> ""]>> \o Tail(todo)
                     ELSE Tail(todo))
  /\ posted' = Append(posted, new_body)
  /\ UNCHANGED <<labels, prLabels>>
  /\ OpFrame

\* pr.create_issue_comment(new_body) after archive_old_comment(pr)
CreateComment ==
  /\ pc = "ops"
  /\ Head(todo).op = "create"
  /\ comments' = [comments EXCEPT ![item] = Append(@, new_body)]
  /\ calls' = [calls EXCEPT !.post = @ + 1]
  /\ Continue(Tail(todo))
  /\ UNCHANGED <<labels, prLabels, posted>>
  /\ OpFrame

\* remove_label(pr, label)
RemoveLabel ==
  /\ pc = "ops"
  /\ Head(todo).op = "remove"
  /\ LET label == Head(todo).label
         hit == RemovesLabel(prLabels, label)
     IN  /\ labels' = [labels EXCEPT ![item] = IF hit THEN @ \ {label} ELSE @]
         /\ prLabels' = IF hit /\ ~labelsCached THEN prLabels \ {label} ELSE prLabels
         /\ calls' = [calls EXCEPT !.remove = @ + (IF hit THEN 1 ELSE 0)]
  /\ Continue(Tail(todo))
  /\ UNCHANGED <<comments, posted>>
  /\ OpFrame

\* add_label(pr, label)
AddLabel ==
  /\ pc = "ops"
  /\ Head(todo).op = "add"
  /\ LET label == Head(todo).label
         hit == AddsLabel(prLabels, label)
     IN  /\ labels' = [labels EXCEPT ![item] = IF hit THEN @ \cup {label} ELSE @]
         /\ prLabels' = IF hit /\ ~labelsCached THEN prLabels \cup {label} ELSE prLabels
         /\ calls' = [calls EXCEPT !.add = @ + (IF hit THEN 1 ELSE 0)]
  /\ Continue(Tail(todo))
  /\ UNCHANGED <<comments, posted>>
  /\ OpFrame

\* the rest of the loop body: the module link, then processed.add(item.number)
FinishItem ==
  /\ pc = "link"
  /\ comments' = [comments EXCEPT ![item] =
                    IF component[item] # <<>> THEN Append(@, LinkBody(component[item])) ELSE @]
  /\ processed' = processed \cup {item}
  /\ prev' = [prev EXCEPT ![item] = [outcome |-> outcome, ci |-> ci[item]]]
  /\ abortedNow' = IF outcome = "ABORTED" THEN abortedNow \cup {item} ELSE abortedNow
  /\ orig' = IF orig.item = item THEN NoOrig ELSE orig
  /\ pc' = "loop"
  /\ UNCHANGED <<open, isPR, component, ci, labels, saved, queue, item, todo, new_body,
                 prLabels, labelsCached, passes, crashes, newRuns, outcome, before, calls,
                 posted, selected, aborted>>

\* the for loop is over: json.dump(list(processed)), then time.sleep(180)
EndPass ==
  /\ pc = "loop"
  /\ queue = <<>>
  /\ saved' = processed
  /\ pc' = "sleep"
  /\ UNCHANGED <<remote, ci, processed, queue, item, todo, new_body, prLabels, labelsCached,
                 passes, crashes, newRuns, outcome, before, calls, posted, prev, selected,
                 aborted, abortedNow, orig>>

----------------------------------------------------------------------------
(* The environment                                                         *)

\* while the worker sleeps, the head commit of a pull request gets another run
NewRun ==
  /\ pc = "sleep"
  /\ newRuns < MaxNewRuns
  /\ newRuns' = newRuns + 1
  /\ \E i \in {k \in open : isPR[k]} :
       \E c \in CiStates \ {ci[i]} : ci' = [ci EXCEPT ![i] = c]
  /\ UNCHANGED <<remote, saved, processed, pc, queue, item, todo, new_body, prLabels,
                 labelsCached, passes, crashes, outcome, before, calls, posted, prev, selected,
                 aborted, abortedNow, orig>>

\* the process dies and is started again: the module level of bot.py reloads
\* PROCESSED_FILE and bot_loop starts over (a restart of a process that has not
\* entered the loop yet changes nothing)
Restart ==
  /\ pc # "start"
  /\ crashes < MaxCrashes
  /\ crashes' = crashes + 1
  /\ processed' = saved
  /\ pc' = "start"
  /\ queue' = <<>>
  /\ item' = 0
  /\ todo' = <<>>
  /\ new_body' = <<>>
  /\ prLabels' = {}
  /\ outcome' = "none"
  /\ before' = NoBefore
  /\ calls' = NoCalls
  /\ posted' = <<>>
  /\ prev' = [i \in open |-> NoPrev]
  /\ selected' = {} /\ aborted' = {} /\ abortedNow' = {}
  /\ orig' = IF orig.item = 0 /\ pc \in {"check", "ops", "link"} /\ isPR[item]
             THEN [item |-> item, ci |-> ci[item],
                   labels |-> before.labels, comments |-> before.comments]
             ELSE orig
  /\ UNCHANGED <<remote, ci, saved, labelsCached, passes, newRuns>>

Next ==
  \/ StartPass \/ TakeItem
  \/ CheckNoRun \/ CheckFetchFailed \/ CheckRaises
  \/ CheckAllPassed \/ CheckNoEvidence \/ CheckWithEvidence
  \/ ArchiveComment \/ PostComment \/ CreateComment \/ RemoveLabel \/ AddLabel
  \/ FinishItem \/ EndPass
  \/ NewRun \/ Restart

Spec == Init /\ [][Next]_vars

SpecLoop == InitLoop /\ [][Next]_vars

SpecLogs == InitLogs /\ [][Next]_vars

SpecHistory == InitHistory /\ [][Next]_vars

----------------------------------------------------------------------------
(* One uninterrupted call of check_ci_errors_and_comment, as a function    *)

\* the remote labels after the label calls of `ops`, made on an object whose
\* labels attribute holds objLabels
RECURSIVE LabelsAfter(_, _, _, _)
LabelsAfter(ops, remoteLabels, objLabels, cached) ==
  IF ops = <<>> THEN remoteLabels
  ELSE LET o == ops[1]
           hit == IF o.op = "remove" THEN RemovesLabel(objLabels, o.label)
                  ELSE IF o.op = "add" THEN AddsLabel(objLabels, o.label)
                  ELSE FALSE
           after == IF ~hit THEN remoteLabels
                    ELSE IF o.op = "remove" THEN remoteLabels \ {o.label}
                    ELSE remoteLabels \cup {o.label}
       IN  LabelsAfter(Tail(ops), after,
                       IF cached \/ ~hit THEN objLabels
                       ELSE IF o.op = "remove" THEN objLabels \ {o.label}
                       ELSE objLabels \cup {o.label},
                       cached)

\* labels and comments after one call on a completed run whose fetches succeed
PassResult(c, ls, cs, cached) ==
  IF FailedJobs(Run(c).jobs) = {}
  THEN [labels |-> LabelsAfter(AllPassedOps, ls, ls, cached),
        comments |-> archive_old_comment(cs)]
  ELSE IF Report(Run(c)) = <<>>
  THEN [labels |-> ls, comments |-> cs]
  ELSE [labels |-> LabelsAfter(FailedOps, ls, ls, cached),
        comments |-> post_or_update_comment(cs, comment_body(Run(c)))]

----------------------------------------------------------------------------
(* Properties                                                              *)

\* check_ci_errors_and_comment has returned for the pull request `item`
Returned == pc = "link" /\ item \in open /\ isPR[item]

\* the call is past its fetches, all of which succeeded
Classified == outcome \in {"ALL_PASSED", "FAILED_NO_EVIDENCE", "FAILED_WITH_EVIDENCE"}

MutuallyExclusive(ls) ==
  ~("success" \in ls /\ (ls \cap {"stale_ci", "needs_revision"}) # {})

\* an unarchived bot comment: the marker without the <details> wrapper
Unarchived(body) == Contains(body, BotMarker) /\ ~Contains(body, DetailsTag)

HasActive(cs) == \E i \in 1..Len(cs) : Unarchived(cs[i])

\* a member of the archive that gives evidence for a failed job of the run: a .txt
\* file whose folder matches the key of a failed job and that holds a marker line
IsEvidence(run, file) ==
  /\ EndsWith(file.name, DotTxt)
  /\ \E k \in 1..Len(run.jobs) :
       /\ run.jobs[k].conclusion = "failure"
       /\ \/ Contains(JobKey(run.jobs[k].name), NormalizedFolder(file.name))
          \/ Contains(NormalizedFolder(file.name), JobKey(run.jobs[k].name))
  /\ \E n \in 1..Len(file.lines) : IsErrorLine(clean_line(file.lines[n]))

SomeJobFailed(run) == \E k \in 1..Len(run.jobs) : run.jobs[k].conclusion = "failure"

HasEvidence(run) == \E f \in 1..Len(run.files) : IsEvidence(run, run.files[f])

\* C1: when a call of check_ci_errors_and_comment has returned, whatever its outcome,
\* and the labels before it did not hold success together with stale_ci or
\* needs_revision, the labels after it do not either.
C1_SuccessExclusive ==
  (Returned /\ MutuallyExclusive(before.labels)) => MutuallyExclusive(labels[item])

C1_Witness ==
  /\ Returned
  /\ outcome = "FAILED_WITH_EVIDENCE"
  /\ before.labels = {"success"}
  /\ "stale_ci" \in labels[item]
  /\ calls.remove = 1

\* C2: when the previous call for the pull request and this one both built the same
\* comment body, this call makes no comment write and no label call, and leaves the
\* labels as they were.
C2_SecondPassWritesNothing ==
  (/\ Returned
   /\ outcome = "FAILED_WITH_EVIDENCE"
   /\ prev[item].outcome = "FAILED_WITH_EVIDENCE"
   /\ comment_body(Run(prev[item].ci)) = new_body)
  => (calls = NoCalls /\ labels[item] = before.labels)

\* C3: when no job of the completed run failed, the call posts no comment, edits a
\* comment exactly when an unarchived bot comment existed, leaves no bot comment
\* unarchived, and leaves the labels {success}, whatever they were.
C3_AllPassed ==
  (Returned /\ Classified /\ ~SomeJobFailed(Run(ci[item])))
  => /\ labels[item] = {"success"}
     /\ calls.post = 0
     /\ calls.edit = (IF HasActive(before.comments) THEN 1 ELSE 0)
     /\ Len(comments[item]) = Len(before.comments)
     /\ ~HasActive(comments[item])
     /\ \A i \in 1..Len(before.comments) :
          IF Unarchived(before.comments[i])
          THEN comments[item][i] = ArchiveHead \o before.comments[i] \o ArchiveTail
          ELSE comments[item][i] = before.comments[i]

C3_Witness ==
  /\ Returned
  /\ outcome = "ALL_PASSED"
  /\ HasActive(before.comments)
  /\ before.labels = {"stale_ci", "needs_revision"}
  /\ labels[item] = {"success"}

\* C4: when the call built a comment body and the pull request had no unarchived bot
\* comment, it posts exactly one comment and leaves stale_ci and needs_revision set
\* and success unset, whatever the labels were.
C4_FirstFailure ==
  (Returned /\ outcome = "FAILED_WITH_EVIDENCE" /\ ~HasActive(before.comments))
  => /\ calls.post = 1
     /\ {"stale_ci", "needs_revision"} \subseteq labels[item]
     /\ "success" \notin labels[item]

\* the latest bot comment before the call is unarchived and differs from the new body
ActiveDiffers ==
  /\ BotComments(before.comments) # {}
  /\ Unarchived(before.comments[LatestBot(before.comments)])
  /\ Strip(before.comments[LatestBot(before.comments)]) # Strip(new_body)

\* C5: when the call built a comment body that differs from the unarchived latest bot
\* comment, then at every point of the call at most one comment has been posted, a
\* posted comment finds the previous one already archived, and the call does not
\* return before it has posted.
C5_ArchiveThenPost ==
  (/\ pc \in {"ops", "link"} /\ item \in open /\ isPR[item]
   /\ outcome = "FAILED_WITH_EVIDENCE"
   /\ ActiveDiffers)
  => /\ calls.post <= 1
     /\ calls.post = 1 =>
          /\ calls.edit = 1
          /\ comments[item][LatestBot(before.comments)]
               = ArchiveHead \o before.comments[LatestBot(before.comments)] \o ArchiveTail
          /\ comments[item][Len(comments[item])] = new_body
          /\ Len(comments[item]) = Len(before.comments) + 1
     /\ calls.post = 0 => Len(comments[item]) = Len(before.comments)
     /\ pc = "link" => calls.post = 1

C5_Witness ==
  /\ Returned
  /\ outcome = "FAILED_WITH_EVIDENCE"
  /\ ActiveDiffers
  /\ calls.post = 1
  /\ calls.edit = 1

\* C6: when a job of the completed run failed and no member of the archive gives
\* evidence for a failed job, the call leaves comments and labels as they were and
\* makes no remote write.
C6_NoEvidenceNoWrite ==
  (/\ Returned /\ Classified
   /\ SomeJobFailed(Run(ci[item]))
   /\ ~HasEvidence(Run(ci[item])))
  => /\ comments[item] = before.comments
     /\ labels[item] = before.labels
     /\ calls = NoCalls

C6_Witness ==
  /\ Returned /\ Classified
  /\ SomeJobFailed(Run(ci[item]))
  /\ ~HasEvidence(Run(ci[item]))
  /\ before.labels = {"success"}
  /\ \E f \in 1..Len(Run(ci[item]).files) :
       EndsWith(Run(ci[item]).files[f].name, DotTxt)

\* C7: a call whose fetches succeeded takes the all-passed exit exactly when no job
\* failed, whatever the archive holds; otherwise the no-evidence exit exactly when no
\* archive member gives evidence; otherwise it builds a comment body. The
\* no-evidence exit never adds success nor makes any other write.
C7_ThreeWaySplit ==
  (pc \in {"ops", "link"} /\ item \in open /\ isPR[item] /\ Classified)
  => /\ outcome = "ALL_PASSED" <=> ~SomeJobFailed(Run(ci[item]))
     /\ outcome = "FAILED_NO_EVIDENCE"
          <=> (SomeJobFailed(Run(ci[item])) /\ ~HasEvidence(Run(ci[item])))
     /\ outcome = "FAILED_WITH_EVIDENCE"
          <=> (SomeJobFailed(Run(ci[item])) /\ HasEvidence(Run(ci[item])))
     /\ outcome = "FAILED_NO_EVIDENCE"
          => (todo = <<>> /\ calls = NoCalls /\ labels[item] = before.labels)

\* the all-passed exit taken although the archive holds evidence-like content
C7_Witness ==
  /\ Returned
  /\ outcome = "ALL_PASSED"
  /\ \E f \in 1..Len(Run(ci[item]).files) :
       \E n \in 1..Len(Run(ci[item]).files[f].lines) :
         IsErrorLine(clean_line(Run(ci[item]).files[f].lines[n]))
  /\ labels[item] = {"success"}

\* C8: a fetch that fails while one item is reconciled, by a non-success status or
\* by an exception, ends only that call: the worker goes on with the loop body.
C8_FetchFailureSkipsItem ==
  (outcome \in {"ABORTED", "RAISED"}) => pc = "link"

\* C9: every pull request whose call the previous pass ended on a non-success fetch
\* is among the items the following pass selects.
C9_AbortedIsRetried == aborted \subseteq selected

\* C10: when a restart interrupted the call for a pull request, or the pass after
\* it, and the next pass runs the call again on the same run with all fetches
\* succeeding, labels and comments end as one uninterrupted call would have left them.
C10_RestartSafe ==
  (Returned /\ Classified /\ orig.item = item /\ orig.ci = ci[item])
  => /\ labels[item] = PassResult(orig.ci, orig.labels, orig.comments, labelsCached).labels
     /\ comments[item] = PassResult(orig.ci, orig.labels, orig.comments, labelsCached).comments

\* the worker is inside the for loop of bot_loop
InPass == pc \in {"loop", "check", "ops", "link"}

\* a step inside a pass leaves the set of the worker and PROCESSED_FILE alone; a
\* restart inside a pass finds PROCESSED_FILE as it is, and what the restarted
\* worker selects holds every item the interrupted pass had selected
PassKeepsProcessed ==
  /\ (InPass /\ InPass') => (processed' = processed /\ saved' = saved)
  /\ (InPass /\ crashes' # crashes)
       => (saved' = saved /\ selected \subseteq get_unprocessed_items(saved)')

\* C11: during a pass neither the set of the worker nor the persisted file changes,
\* so a crash inside a pass leaves the persisted set as it was when the pass began
\* and every item the interrupted pass selected is selected again after the restart.
C11_MutatedOnlyBetweenPasses == [][PassKeepsProcessed]_vars

\* scenario A: the only failed job is Units (devel), and the archive holds a member
\* 0_units_devel_.txt with a line whose cleaned form begins FAILED:
ScenarioA(run) ==
  /\ FailedJobs(run.jobs) = {UnitsDevel}
  /\ \E f \in 1..Len(run.files) :
       /\ run.files[f].name = UnitsOrdinalFile
       /\ \E n \in 1..Len(run.files[f].lines) :
            StartsWith(clean_line(run.files[f].lines[n]), <<"F","A","I","L","E","D",":">>)

\* C12: in scenario A the folder 0_units_devel_.txt resolves to the job
\* Units (devel), the report has exactly one entry, keyed Units (devel), and the call
\* posts a new comment when the pull request had no bot comment.
C12_ScenarioAResolves ==
  (Returned /\ Classified /\ ScenarioA(Run(ci[item])))
  => /\ match_job_for_log(NormalizedFolder(UnitsOrdinalFile),
                          JobLookup(Run(ci[item]).jobs, <<>>)) = UnitsDevel
     /\ Len(Report(Run(ci[item]))) = 1
     /\ Report(Run(ci[item]))[1][1] = UnitsDevel
     /\ outcome = "FAILED_WITH_EVIDENCE"
     /\ BotComments(before.comments) = {} => calls.post = 1

\* the job the archive member f of the run resolves to (<<>>: none)
ResolvedJob(run, f) ==
  match_job_for_log(NormalizedFolder(run.files[f].name), JobLookup(run.jobs, <<>>))

\* the member f is a log file that resolves to a failed job and holds a marker line
YieldsSnippet(run, f) ==
  /\ EndsWith(run.files[f].name, DotTxt)
  /\ ResolvedJob(run, f) # <<>>
  /\ \E n \in 1..Len(run.files[f].lines) : IsErrorLine(clean_line(run.files[f].lines[n]))

\* the member f is the log file of its job: the first that resolves to it and
\* holds a marker line
IsLogOfJob(run, f) ==
  /\ YieldsSnippet(run, f)
  /\ \A g \in 1..(f - 1) : ~(YieldsSnippet(run, g) /\ ResolvedJob(run, g) = ResolvedJob(run, f))

\* the cleaned line n of the lines ends within the snippet budget of the joined text
WithinBudget(lines, n) ==
  Len(Join(extract_error_snippets(SubSeq(lines, 1, n)), SnippetSeparator)) <= SnippetBudget

\* the snippet the test of the repository expects in the comment
FailedText ==
  <<"F","A","I","L","E","D",":"," ","T","e","s","t"," ","f","a","i","l","e","d"," ","d","u","e",
    " ","t","o"," ","a","s","s","e","r","t","i","o","n">>

\* C13: when the call has returned for a completed run with a failed job whose log
\* file resolves to it, post_comment was called exactly once; its body holds the
\* marker title, a heading with the name of the job, and every line of that file
\* whose cleaned form begins with a failure marker and ends within the snippet
\* budget. For the log of the test of the repository the body holds
\* FAILED: Test failed due to assertion.
C13_MarkerLinesPosted ==
  (Returned /\ Classified)
  => LET run == Run(ci[item])
     IN  /\ (/\ UnitsDevel \in FailedJobs(run.jobs)
              /\ run.files[1].name = UnitsFile
              /\ \E n \in 1..Len(run.files[1].lines) : run.files[1].lines[n] = FailedLine)
             => (Len(posted) = 1 /\ Contains(posted[1], FailedText))
         /\ \A f \in 1..Len(run.files) :
              IsLogOfJob(run, f) =>
                /\ Len(posted) = 1
                /\ Contains(posted[1], BotMarker)
                /\ Contains(posted[1], JobHeading \o ResolvedJob(run, f) \o <<"LF">>)
                /\ \A n \in 1..Len(run.files[f].lines) :
                     (/\ IsErrorLine(clean_line(run.files[f].lines[n]))
                      /\ WithinBudget(run.files[f].lines, n))
                     => Contains(posted[1], clean_line(run.files[f].lines[n]))

\* the log of the test of the repository
C13_Witness ==
  /\ Returned
  /\ outcome = "FAILED_WITH_EVIDENCE"
  /\ Run(ci[item]).files = <<[name |-> UnitsFile, lines |-> <<NormalLine, FailedLine, NormalLine>>]>>
  /\ Len(posted) = 1
  /\ Contains(posted[1], FailedText)

Max(a, b) == IF a >= b THEN a ELSE b

Min(a, b) == IF a <= b THEN a ELSE b

\* C14: for a line at position n of the log file of a job whose cleaned form begins
\* with a failure marker (index n-1 of L lines), the snippet in the posted body holds
\* the lines at indexes max(0, n-1-3) up to but excluding min(L, n-1+7), when the file
\* as a whole is within the snippet budget.
C14_SnippetWindow ==
  (Returned /\ Classified)
  => LET run == Run(ci[item])
     IN  \A f \in 1..Len(run.files) :
           (IsLogOfJob(run, f) /\ Len(Join(run.files[f].lines, <<"LF">>)) <= SnippetBudget)
           => LET lines == run.files[f].lines
              IN  \A n \in 1..Len(lines) :
                    IsErrorLine(clean_line(lines[n]))
                    => \A m \in Max(1, n - 3)..Min(Len(lines), n + 6) :
                         /\ Len(posted) = 1
                         /\ Contains(posted[1], clean_line(lines[m]))

\* phrases of the denylist the claim names
Denylist ==
  {<<"c","o","v","e","r","a","g","e",":">>,
   <<"s","h","e","l","l",":">>}

\* C15: a line whose cleaned form begins with a failure marker and also holds a
\* denylisted phrase is not among the candidate error lines: a log file whose only
\* marker lines are such lines gives no evidence, and no body passed to
\* post_comment holds such a line.
C15_NoiseExcluded ==
  (Returned /\ Classified)
  => LET run == Run(ci[item])
         noise(line) == /\ IsErrorLine(clean_line(line))
                        /\ \E d \in Denylist : Contains(clean_line(line), d)
     IN  \A f \in 1..Len(run.files) :
           \A n \in 1..Len(run.files[f].lines) :
             noise(run.files[f].lines[n])
             => /\ clean_line(run.files[f].lines[n])
                     \notin {extract_error_snippets(run.files[f].lines)[k] :
                                k \in 1..Len(extract_error_snippets(run.files[f].lines))}
                /\ \A k \in 1..Len(posted) :
                     ~Contains(posted[k], clean_line(run.files[f].lines[n]))

\* the entry at position i of the table matches the folder key: one of the two
\* strings contains the other
EntryMatches(table, i, folder) ==
  Contains(table[i][1], folder) \/ Contains(folder, table[i][1])

\* C16: for every member of the archive, match_job_for_log finds no job only when no
\* entry of the table matches the folder key in either direction, and otherwise
\* returns the name of the first matching entry in insertion order; a log file
\* that resolves and holds a marker line has its job in the report and in the posted
\* body, whatever unmatched members precede it.
C16_FirstContainmentWins ==
  (Returned /\ Classified)
  => LET run == Run(ci[item])
         table == JobLookup(run.jobs, <<>>)
     IN  \A f \in 1..Len(run.files) :
           LET folder == NormalizedFolder(run.files[f].name)
               found == match_job_for_log(folder, table)
           IN  /\ found = <<>> <=> (\A i \in 1..Len(table) : ~EntryMatches(table, i, folder))
               /\ found # <<>> =>
                    \E i \in 1..Len(table) :
                      /\ EntryMatches(table, i, folder)
                      /\ \A j \in 1..(i - 1) : ~EntryMatches(table, j, folder)
                      /\ found = table[i][2]
               /\ YieldsSnippet(run, f) =>
                    /\ DictHas(Report(run), found)
                    /\ Len(posted) = 1
                    /\ Contains(posted[1], JobHeading \o found \o <<"LF">>)

\* a folder key that contains both keys of the table resolves to the first entry, and
\* the member after an unmatched one is still recorded
C16_Witness ==
  /\ Returned /\ Classified
  /\ FailedJobs(Run(ci[item]).jobs) = {Sanity, UnitsDevel}
  /\ Run(ci[item]).files[1].name = LintFile
  /\ ResolvedJob(Run(ci[item]), 1) = <<>>
  /\ ResolvedJob(Run(ci[item]), 2) = UnitsDevel
  /\ Run(ci[item]).files[3].name = BothFile
  /\ ResolvedJob(Run(ci[item]), 3) = Run(ci[item]).jobs[1].name
  /\ Run(ci[item]).jobs[1].name = Sanity
  /\ Contains(posted[1], JobHeading \o UnitsDevel \o <<"LF">>)

\* the first position at which p occurs in s (0: nowhere)
FirstPos(s, p) ==
  IF Contains(s, p)
  THEN CHOOSE i \in 1..Len(s) : OccursAt(p, s, i) /\ \A j \in 1..(i - 1) : ~OccursAt(p, s, j)
  ELSE 0

\* the member of the archive the entry of the report for `job` comes from
LogOfJob(run, job) ==
  CHOOSE f \in 1..Len(run.files) : IsLogOfJob(run, f) /\ ResolvedJob(run, f) = job

\* C17: the report of a call holds at most one entry per job; an entry holds the
\* marker lines of the first member, in archive order, that resolves to the job and
\* holds a marker line, and nothing of a later member; every such member has its
\* entry; the entries, and the sections of the posted body, are in the order of
\* those members in the archive.
C17_FirstMatchOnly ==
  (Returned /\ Classified /\ SomeJobFailed(Run(ci[item])))
  => LET run == Run(ci[item])
         report == Report(run)
     IN  /\ \A i, j \in 1..Len(report) : report[i][1] = report[j][1] => i = j
         /\ \A f \in 1..Len(run.files) :
              IsLogOfJob(run, f) => DictHas(report, ResolvedJob(run, f))
         /\ \A i \in 1..Len(report) :
              /\ \E f \in 1..Len(run.files) :
                   IsLogOfJob(run, f) /\ ResolvedJob(run, f) = report[i][1]
              /\ report[i][2]
                   = Join(extract_error_snippets(run.files[LogOfJob(run, report[i][1])].lines),
                          SnippetSeparator)
         /\ \A i, j \in 1..Len(report) :
              i < j =>
                /\ LogOfJob(run, report[i][1]) < LogOfJob(run, report[j][1])
                /\ Len(posted) = 1
                /\ FirstPos(posted[1], JobHeading \o report[i][1] \o <<"LF">>) > 0
                /\ FirstPos(posted[1], JobHeading \o report[i][1] \o <<"LF">>)
                     < FirstPos(posted[1], JobHeading \o report[j][1] \o <<"LF">>)

\* three members resolve to Sanity: the first holds no marker line, the second gives
\* the entry, the third is ignored; Units (devel), second in the table, comes first
\* in the body because its member comes first in the archive
C17_Witness ==
  /\ Returned /\ Classified
  /\ Run(ci[item]).jobs[1].name = Sanity
  /\ ResolvedJob(Run(ci[item]), 1) = Sanity
  /\ ~YieldsSnippet(Run(ci[item]), 1)
  /\ IsLogOfJob(Run(ci[item]), 3)
  /\ ResolvedJob(Run(ci[item]), 3) = Sanity
  /\ YieldsSnippet(Run(ci[item]), 4)
  /\ ResolvedJob(Run(ci[item]), 4) = Sanity
  /\ Len(Report(Run(ci[item]))) = 2
  /\ Report(Run(ci[item]))[1][1] = UnitsDevel
  /\ Len(posted) = 1
  /\ ~Contains(posted[1], clean_line(WarningLine))

\* the body is the result of an archiving: another body in the collapsible container
Archived(body) == StartsWith(body, ArchiveHead) /\ EndsWith(body, ArchiveTail)

\* a step changes an existing comment of an item only at its latest bot comment,
\* which was not archived, and only into that body wrapped in the container
OnlyLatestIsWrapped ==
  \A k \in open :
    /\ Len(comments'[k]) >= Len(comments[k])
    /\ \A i \in 1..Len(comments[k]) :
         comments'[k][i] # comments[k][i]
         => /\ i = LatestBot(comments[k])
            /\ ~Contains(comments[k][i], DetailsTag)
            /\ ~Archived(comments[k][i])
            /\ comments'[k][i] = ArchiveHead \o comments[k][i] \o ArchiveTail

\* no comment is wrapped twice, and post_comment takes its skip branch only against
\* a latest bot comment that is not archived
NeverTwiceNeverActive ==
  /\ \A k \in open : \A i \in 1..Len(comments[k]) :
       ~StartsWith(comments[k][i], ArchiveHead \o ArchiveHead)
  /\ (/\ pc = "ops" /\ Head(todo).op = "post"
      /\ PostBranch(comments[item], new_body) = "skip")
     => ~Archived(comments[item][LatestBot(comments[item])])

\* C18: archiving rewrites only the latest bot comment, into its unchanged body
\* wrapped in the collapsible container; an archived comment is never edited again
\* (archive_old_comment on an archived latest comment makes no edit), so no body is
\* wrapped twice, and an archived comment is never the one post_comment skips against.
C18_ArchivedOnce == [][OnlyLatestIsWrapped]_vars /\ []NeverTwiceNeverActive

\* archive_old_comment has run on a latest bot comment that was already archived and
\* has left it as it was
C18_Witness ==
  /\ Returned
  /\ outcome = "ALL_PASSED"
  /\ BotComments(before.comments) # {}
  /\ Archived(before.comments[LatestBot(before.comments)])
  /\ comments[item] = before.comments
  /\ calls.edit = 0

\* C19: when the pull request has no workflow run, or its latest run is not
\* completed, the call returns on the exit that precedes every download, has made no
\* remote write and no call of post_comment at any point, and leaves the comments
\* and the labels of the pull request as they were.
C19_NoRunNoWrite ==
  (/\ pc \in {"ops", "link"} /\ item \in open /\ isPR[item]
   /\ ci[item].status # "completed")
  => /\ pc = "link"
     /\ outcome = "NO_RUN"
     /\ calls = NoCalls
     /\ posted = <<>>
     /\ comments[item] = before.comments
     /\ labels[item] = before.labels

\* a pull request with an unarchived report and labels whose new run is still going
C19_Witness ==
  /\ Returned
  /\ ci[item].status = "in_progress"
  /\ outcome = "NO_RUN"
  /\ HasActive(comments[item])
  /\ labels[item] # {}

\* the text s holds the text p: at some position, character by character
Holds(s, p) ==
  \E i \in 1..(Len(s) - Len(p) + 1) : \A j \in 1..Len(p) : s[i + j - 1] = p[j]

\* the positions of the unarchived bot comments
ActiveComments(cs) == {i \in BotComments(cs) : ~Contains(cs[i], DetailsTag)}

\* at most one comment of cs that holds the marker lacks the details tag, and it is
\* the last of those that hold the marker
OneActive(cs) ==
  LET marked == {i \in 1..Len(cs) : Holds(cs[i], BotMarker)}
      active == {i \in marked : ~Holds(cs[i], DetailsTag)}
  IN  /\ Cardinality(active) <= 1
      /\ \A i \in active : \A j \in marked : j <= i

\* C20: on a pull request that had no bot comment when the worker first saw it, at
\* every point of every pass at most one comment that holds the marker lacks the
\* details tag, and it is the most recent bot comment: it is so at the start and
\* after every step that changes the comments.
C20_OneActiveComment ==
  /\ \A k \in open : OneActive(comments[k])
  /\ [][\A k \in open : comments'[k] # comments[k] => OneActive(comments'[k])]_vars

\* two passes have posted two different reports: the first is archived, the second
\* is the active one
C20_Witness ==
  /\ pc = "sleep"
  /\ passes = 2
  /\ Cardinality(BotComments(comments[1])) = 2
  /\ Cardinality(ActiveComments(comments[1])) = 1
  /\ \E i \in BotComments(comments[1]) : Archived(comments[1][i])

\* C21: at every pass boundary, for a pull request that had no status label and no
\* bot comment when the worker first saw it: when it carries success, none of its bot
\* comments is unarchived, and when it carries stale_ci or needs_revision, one is.
C21_LabelsMatchComments ==
  pc = "sleep"
  => \A k \in open :
       isPR[k] =>
         /\ "success" \in labels[k] => ~HasActive(comments[k])
         /\ (labels[k] \cap {"stale_ci", "needs_revision"}) # {} => HasActive(comments[k])

\* the elements of a sequence
Elements(s) == {s[i] : i \in 1..Len(s)}

\* a step that starts a pass visits exactly the open items that are not in the seen
\* set or carry a status label, and among them every pull request whose previous
\* call built and posted a report
SelectsWhatIsDue ==
  (pc \in {"start", "sleep"} /\ pc' = "loop")
  => /\ \A i \in open :
          i \in Elements(queue')
          <=> (i \notin processed
               \/ (labels[i] \cap {"success", "stale_ci", "needs_revision"}) # {})
     /\ \A i \in open :
          (isPR[i] /\ prev[i].outcome = "FAILED_WITH_EVIDENCE") => i \in Elements(queue')

\* C22: an open item is selected in a pass exactly when its number is not in the
\* seen set or it carries success, stale_ci or needs_revision; so a pull request
\* that a pass left with a posted report is selected in the following passes, and a
\* pass that finds its run without failed job leaves its comment archived and its
\* labels {success}.
C22_SelectedUntilSuccess ==
  /\ [][SelectsWhatIsDue]_vars
  /\ [](\A i \in open :
          (pc = "sleep" /\ isPR[i] /\ prev[i].outcome = "ALL_PASSED")
          => (labels[i] = {"success"} /\ ~HasActive(comments[i])))

\* the positions of the module-link comments of an item
LinkComments(k) == {i \in 1..Len(comments[k]) : StartsWith(comments[k][i], LinkHead)}

\* C23: over any sequence of passes an item holds at most one module-link comment: an
\* item handled in an earlier pass does not get the link again, also when it carries
\* a status label.
C23_LinkPostedOnce ==
  \A k \in open : Cardinality(LinkComments(k)) <= 1

====
